---- MODULE Spec2Model ----
(***************************************************************************)
(* rspirv: the SPIR-V header generator (autogen/header.rs) and the         *)
(* generated annotation builder (rspirv/dr/build/autogen_annotation.rs).   *)
(*                                                                         *)
(* Three specifications share the module:                                  *)
(*   Spec      the annotation builder appending to module.annotations      *)
(*   SpecKind  gen_value_enum_operand_kind and the capability lookup it    *)
(*             generates                                                   *)
(*   SpecDecode gen_value_enum_operand_kind and the decoders it generates  *)
(*   SpecOp    the Op enumeration of gen_spirv_header and its decoder      *)
(* Strings whose characters matter (symbols, kind names, opnames) are      *)
(* sequences of one-character strings.                                     *)
(***************************************************************************)
EXTENDS Integers, Sequences, FiniteSets, TLC

VARIABLES
    annotations,   \* self.module.annotations
    initial,       \* history: module.annotations before the first call
    calls,         \* history: the builder calls made so far, with their arguments
    grammar,       \* the structs::OperandKind handed to gen_value_enum_operand_kind
    kindOut,       \* the token stream gen_value_enum_operand_kind returned
    instructions,  \* grammar.instructions handed to gen_spirv_header
    opOut,         \* the Op enumeration and decoder gen_spirv_header returned
    result         \* the last call of a generated procedure: its input and its return

vars == <<annotations, initial, calls, grammar, kindOut, instructions, opOut, result>>

\* The value of a variable that a specification does not use.
Idle == <<>>

\* Option<T>
None == <<>>
Some(x) == <<x>>

(***************************************************************************)
(* Bounds                                                                  *)
(***************************************************************************)
MaxCalls == 2
\* the longest list of enumerants of an operand kind
MaxEnumerants == 3
\* the width of a u32, scaled down; an i64 and a u64 are twice as wide
WordBits == 2
\* the longest list of instructions of a grammar
MaxInstructions == 3

(***************************************************************************)
(* dr::Operand and dr::Instruction                                         *)
(***************************************************************************)
IdRef(w) == [kind |-> "IdRef", id |-> w]
LiteralInt32(n) == [kind |-> "LiteralInt32", lit |-> n]
Decoration(d) == [kind |-> "Decoration", dec |-> d]

Instruction_new(class, result_type, result_id, operands) ==
    [class |-> class, result_type |-> result_type, result_id |-> result_id,
     operands |-> operands]

\* A push that inserts at the front of the vector.
push_front(v, x) == <<x>> \o v

\* Vec::push
push(v, x) == Append(v, x)

\* An extend that copies the slice back to front.
extend_reversed(v, slice) ==
    v \o [i \in 1..Len(slice) |-> slice[Len(slice) + 1 - i]]

\* Vec::extend_from_slice
extend_from_slice(v, slice) == v \o slice

(***************************************************************************)
(* The records each constructor of impl Builder builds                     *)
(***************************************************************************)
decorate_inst(target, decoration, additional_params) ==
    LET inst == Instruction_new("Decorate", None, None,
                                <<IdRef(target), Decoration(decoration)>>)
    IN  [inst EXCEPT !.operands = extend_from_slice(@, additional_params)]

member_decorate_inst(structure_type, member, decoration, additional_params) ==
    LET inst == Instruction_new("MemberDecorate", None, None,
                                <<IdRef(structure_type), LiteralInt32(member),
                                  Decoration(decoration)>>)
    IN  [inst EXCEPT !.operands = extend_from_slice(@, additional_params)]

\* for v in targets.as_ref() { inst.operands.push(dr::Operand::IdRef(*v)); }
RECURSIVE push_id_refs(_, _)
push_id_refs(operands, targets) ==
    IF targets = <<>> THEN operands
    ELSE push_id_refs(push(operands, IdRef(Head(targets))), Tail(targets))

group_decorate_inst(decoration_group, targets) ==
    LET inst == Instruction_new("GroupDecorate", None, None,
                                <<IdRef(decoration_group)>>)
    IN  [inst EXCEPT !.operands = push_id_refs(@, targets)]

\* A loop body that pushes the literal before the identifier.
push_pair_swapped(operands, v) ==
    push(push(operands, LiteralInt32(v[2])), IdRef(v[1]))

\* One iteration of the loop of group_member_decorate: v is a pair (id, index).
push_pair(operands, v) ==
    push(push(operands, IdRef(v[1])), LiteralInt32(v[2]))

RECURSIVE push_pairs(_, _)
push_pairs(operands, targets) ==
    IF targets = <<>> THEN operands
    ELSE push_pairs(push_pair(operands, Head(targets)), Tail(targets))

group_member_decorate_inst(decoration_group, targets) ==
    LET inst == Instruction_new("GroupMemberDecorate", None, None,
                                <<IdRef(decoration_group)>>)
    IN  [inst EXCEPT !.operands = push_pairs(@, targets)]

decorate_id_inst(target, decoration, additional_params) ==
    LET inst == Instruction_new("DecorateId", None, None,
                                <<IdRef(target), Decoration(decoration)>>)
    IN  [inst EXCEPT !.operands = extend_from_slice(@, additional_params)]

\* result_type is a parameter of the procedure and is not used by its body.
subgroup_image_media_block_read_intel_inst(result_type, image, coordinate, width, height) ==
    Instruction_new("SubgroupImageMediaBlockReadINTEL", None, None,
                    <<IdRef(image), IdRef(coordinate), IdRef(width), IdRef(height)>>)

member_decorate_string_google_inst(struct_type, member, decoration, additional_params) ==
    LET inst == Instruction_new("MemberDecorateStringGOOGLE", None, None,
                                <<IdRef(struct_type), LiteralInt32(member),
                                  Decoration(decoration)>>)
    IN  [inst EXCEPT !.operands = extend_from_slice(@, additional_params)]

(***************************************************************************)
(* Inputs of the builder                                                   *)
(***************************************************************************)
Ids == {3, 9}
Members == {2}
Decorations == {"K", "Block"}
\* additional_params: lists of already-typed operands
OperandLists ==
    { <<>>, <<LiteralInt32(4)>>, <<LiteralInt32(4), IdRef(5)>>,
      <<IdRef(5), LiteralInt32(4)>> }
\* targets of group_decorate
IdLists == { <<>>, <<3>>, <<3, 9>>, <<9, 3>> }
\* targets of group_member_decorate
PairLists == { <<>>, <<<<5, 2>>>>, <<<<5, 2>>, <<7, 3>>>>, <<<<7, 3>>, <<5, 2>>>> }
\* module.annotations before the first call
InitialAnnotations ==
    { <<>>, <<Instruction_new("DecorationGroup", None, Some(9), <<>>)>> }

(***************************************************************************)
(* impl Builder                                                            *)
(***************************************************************************)
BuilderIdle == /\ grammar = Idle /\ kindOut = Idle /\ instructions = Idle
               /\ opOut = Idle /\ result = Idle

BuilderInit ==
    /\ initial \in InitialAnnotations
    /\ annotations = initial
    /\ calls = <<>>
    /\ BuilderIdle

BuilderFrame == UNCHANGED <<initial, grammar, kindOut, instructions, opOut, result>>

decorate ==
    \E target \in Ids, decoration \in Decorations, additional_params \in OperandLists :
        /\ Len(calls) < MaxCalls
        /\ annotations' = push(annotations,
                               decorate_inst(target, decoration, additional_params))
        /\ calls' = Append(calls, [op |-> "decorate", target |-> target,
                                   decoration |-> decoration,
                                   additional_params |-> additional_params])
        /\ BuilderFrame

member_decorate ==
    \E structure_type \in Ids, member \in Members, decoration \in Decorations,
       additional_params \in OperandLists :
        /\ Len(calls) < MaxCalls
        /\ annotations' = push(annotations,
                               member_decorate_inst(structure_type, member, decoration,
                                                    additional_params))
        /\ calls' = Append(calls, [op |-> "member_decorate",
                                   structure_type |-> structure_type,
                                   member |-> member, decoration |-> decoration,
                                   additional_params |-> additional_params])
        /\ BuilderFrame

group_decorate ==
    \E decoration_group \in Ids, targets \in IdLists :
        /\ Len(calls) < MaxCalls
        /\ annotations' = push(annotations, group_decorate_inst(decoration_group, targets))
        /\ calls' = Append(calls, [op |-> "group_decorate",
                                   decoration_group |-> decoration_group,
                                   targets |-> targets])
        /\ BuilderFrame

group_member_decorate ==
    \E decoration_group \in Ids, targets \in PairLists :
        /\ Len(calls) < MaxCalls
        /\ annotations' = push(annotations,
                               group_member_decorate_inst(decoration_group, targets))
        /\ calls' = Append(calls, [op |-> "group_member_decorate",
                                   decoration_group |-> decoration_group,
                                   targets |-> targets])
        /\ BuilderFrame

decorate_id ==
    \E target \in Ids, decoration \in Decorations, additional_params \in OperandLists :
        /\ Len(calls) < MaxCalls
        /\ annotations' = push(annotations,
                               decorate_id_inst(target, decoration, additional_params))
        /\ calls' = Append(calls, [op |-> "decorate_id", target |-> target,
                                   decoration |-> decoration,
                                   additional_params |-> additional_params])
        /\ BuilderFrame

subgroup_image_media_block_read_intel ==
    \E result_type \in {1, 2}, image \in Ids, coordinate \in Ids,
       width \in {4}, height \in {8} :
        /\ Len(calls) < MaxCalls
        /\ annotations' = push(annotations,
                               subgroup_image_media_block_read_intel_inst(
                                   result_type, image, coordinate, width, height))
        /\ calls' = Append(calls, [op |-> "subgroup_image_media_block_read_intel",
                                   result_type |-> result_type, image |-> image,
                                   coordinate |-> coordinate, width |-> width,
                                   height |-> height])
        /\ BuilderFrame

member_decorate_string_google ==
    \E struct_type \in Ids, member \in Members, decoration \in Decorations,
       additional_params \in OperandLists :
        /\ Len(calls) < MaxCalls
        /\ annotations' = push(annotations,
                               member_decorate_string_google_inst(struct_type, member,
                                                                  decoration,
                                                                  additional_params))
        /\ calls' = Append(calls, [op |-> "member_decorate_string_google",
                                   struct_type |-> struct_type,
                                   member |-> member, decoration |-> decoration,
                                   additional_params |-> additional_params])
        /\ BuilderFrame

BuilderNext ==
    \/ decorate
    \/ member_decorate
    \/ group_decorate
    \/ group_member_decorate
    \/ decorate_id
    \/ subgroup_image_media_block_read_intel
    \/ member_decorate_string_google

Spec == BuilderInit /\ [][BuilderNext]_vars

(***************************************************************************)
(* Strings, identifiers and ordered maps of the generator                  *)
(***************************************************************************)
Str_Dim == <<"D", "i", "m">>
Str_Scope == <<"S", "c", "o", "p", "e">>
Str_Kernel == <<"K", "e", "r", "n", "e", "l">>
Str_Shader == <<"S", "h", "a", "d", "e", "r">>

\* utils::as_ident: the proc_macro2 identifier spelled s
as_ident(s) == [ident |-> s]

\* BTreeMap::get(k).is_some() and BTreeMap::insert, a map being a function
\* on its set of keys
contains_key(m, k) == k \in DOMAIN m
insert(m, k, v) == [x \in (DOMAIN m) \cup {k} |-> IF x = k THEN v ELSE m[x]]
EmptyMap == [x \in {} |-> x]

\* The byte order of the characters that occur in capability names.
Alphabet == <<"K", "S", "a", "d", "e", "h", "l", "n", "r">>
CharCode(c) == CHOOSE i \in 1..Len(Alphabet) : Alphabet[i] = c

\* Ord for String: lexicographic over bytes
RECURSIVE StrLess(_, _)
StrLess(a, b) ==
    IF b = <<>> THEN FALSE
    ELSE IF a = <<>> THEN TRUE
    ELSE IF Head(a) = Head(b) THEN StrLess(Tail(a), Tail(b))
    ELSE CharCode(Head(a)) < CharCode(Head(b))

\* Ord for Vec<String>: lexicographic over elements
RECURSIVE VecLess(_, _)
VecLess(a, b) ==
    IF b = <<>> THEN FALSE
    ELSE IF a = <<>> THEN TRUE
    ELSE IF Head(a) = Head(b) THEN VecLess(Tail(a), Tail(b))
    ELSE StrLess(Head(a), Head(b))

\* BTreeMap::into_iter: the keys in ascending order
RECURSIVE SortedKeys(_)
SortedKeys(keys) ==
    IF keys = {} THEN <<>>
    ELSE LET least == CHOOSE k \in keys : \A o \in keys \ {k} : VecLess(k, o)
         IN  <<least>> \o SortedKeys(keys \ {least})

(***************************************************************************)
(* gen_value_enum_operand_kind                                             *)
(***************************************************************************)
\* The state of the loop over grammar.enumerants before its first iteration.
GenStart ==
    [seen_discriminator |-> EmptyMap, enumerants |-> <<>>, from_prim |-> <<>>,
     aliases |-> <<>>, capability_clauses |-> EmptyMap]

\* The name of a variant: Dim's symbols are preceded with the kind name.
variant_name(grammar_kind, e) ==
    IF grammar_kind = Str_Dim THEN Str_Dim \o e.symbol ELSE e.symbol

\* A key that forgets the order of the capability list.
RECURSIVE SortedStrs(_)
SortedStrs(strs) ==
    IF strs = {} THEN <<>>
    ELSE LET least == CHOOSE k \in strs : \A o \in strs \ {k} : StrLess(k, o)
         IN  <<least>> \o SortedStrs(strs \ {least})
clause_key_unordered(e) ==
    SortedStrs({ e.capabilities[i] : i \in 1..Len(e.capabilities) })

\* The key an enumerant is grouped under in capability_clauses.
clause_key(e) == e.capabilities

\* capability_clauses.entry(key).or_insert_with(Vec::new).push(name)
entry_push(m, key, name) ==
    insert(m, key, push(IF contains_key(m, key) THEN m[key] ELSE <<>>, name))

\* An iteration that never looks the discriminator up: every enumerant
\* becomes a variant.
GenStep_NoAlias(grammar_kind, st, e) ==
    LET kind == as_ident(grammar_kind)
        name == as_ident(variant_name(grammar_kind, e))
        number == e.value
    IN  [seen_discriminator |-> insert(st.seen_discriminator, e.value, name),
         enumerants |-> push(st.enumerants, [name |-> name, number |-> number]),
         from_prim |-> push(st.from_prim,
                            [number |-> number,
                             value |-> Some([kind |-> kind, name |-> name])]),
         aliases |-> st.aliases,
         capability_clauses |-> entry_push(st.capability_clauses, clause_key(e), name)]

\* An iteration that records the capability clause after the if, for
\* aliases too, under the canonical name.
GenStep_AliasClause(grammar_kind, st, e) ==
    LET kind == as_ident(grammar_kind)
    IN  IF contains_key(st.seen_discriminator, e.value)
        THEN LET discriminator == st.seen_discriminator[e.value]
                 symbol == as_ident(e.symbol)
             IN  [st EXCEPT !.aliases =
                    push(@, [symbol |-> symbol, kind |-> kind,
                             discriminator |-> discriminator]),
                            !.capability_clauses =
                    entry_push(@, clause_key(e), discriminator)]
        ELSE LET name == as_ident(variant_name(grammar_kind, e))
                 number == e.value
             IN  [seen_discriminator |-> insert(st.seen_discriminator, e.value, name),
                  enumerants |-> push(st.enumerants, [name |-> name, number |-> number]),
                  from_prim |-> push(st.from_prim,
                                     [number |-> number,
                                      value |-> Some([kind |-> kind, name |-> name])]),
                  aliases |-> st.aliases,
                  capability_clauses |->
                      entry_push(st.capability_clauses, clause_key(e), name)]

\* One iteration of the loop over grammar.enumerants.
GenStep(grammar_kind, st, e) ==
    LET kind == as_ident(grammar_kind)
    IN  IF contains_key(st.seen_discriminator, e.value)
        THEN LET discriminator == st.seen_discriminator[e.value]
                 symbol == as_ident(e.symbol)
             IN  [st EXCEPT !.aliases =
                    push(@, [symbol |-> symbol, kind |-> kind,
                             discriminator |-> discriminator])]
        ELSE LET name == as_ident(variant_name(grammar_kind, e))
                 number == e.value
             IN  [seen_discriminator |-> insert(st.seen_discriminator, e.value, name),
                  enumerants |-> push(st.enumerants, [name |-> name, number |-> number]),
                  from_prim |-> push(st.from_prim,
                                     [number |-> number,
                                      value |-> Some([kind |-> kind, name |-> name])]),
                  aliases |-> st.aliases,
                  capability_clauses |->
                      entry_push(st.capability_clauses, clause_key(e), name)]

RECURSIVE GenLoop(_, _, _)
GenLoop(grammar_kind, st, es) ==
    IF es = <<>> THEN st
    ELSE GenLoop(grammar_kind, GenStep(grammar_kind, st, Head(es)), Tail(es))

\* capability_clauses.into_iter().map(..): one match arm per key, in key order
capability_arms(kind, capability_clauses) ==
    LET keys == SortedKeys(DOMAIN capability_clauses)
    IN  [i \in 1..Len(keys) |->
            [variants |-> [j \in 1..Len(capability_clauses[keys[i]]) |->
                              [kind |-> kind, name |-> capability_clauses[keys[i]][j]]],
             capabilities |-> [j \in 1..Len(keys[i]) |-> as_ident(keys[i][j])]]]

\* The generated items: the enum, the alias constants, the arms of
\* required_capabilities and the arms of from_i64.
gen_value_enum_operand_kind(g) ==
    LET kind == as_ident(g.kind)
        st == GenLoop(g.kind, GenStart, g.enumerants)
    IN  [kind |-> kind,
         enumerants |-> st.enumerants,
         aliases |-> st.aliases,
         capabilities |-> capability_arms(kind, st.capability_clauses),
         from_prim |-> st.from_prim]

(***************************************************************************)
(* The generated code                                                      *)
(***************************************************************************)
Word == 2 ^ WordBits
Long == 2 ^ (2 * WordBits)
U32 == 0..(Word - 1)
I64 == (-(Long \div 2))..(Long \div 2 - 1)
U64 == 0..(Long - 1)

\* n as u32: the low bits
as_u32(n) == n % Word
\* n as i64, n a u64: the same bits read as two's complement
as_i64(n) == IF n >= Long \div 2 THEN n - Long ELSE n

\* match scrutinee { arms.., _ => default }: the first arm that matches
RECURSIVE match_number(_, _)
match_number(arms, w) ==
    IF arms = <<>> THEN None
    ELSE IF Head(arms).number = w THEN Head(arms).value
    ELSE match_number(Tail(arms), w)

\* fn from_i64(n: i64) -> Option<Self>
from_i64_fn(arms, n) == match_number(arms, as_u32(n))
\* fn from_u64(n: u64) -> Option<Self>
from_u64_fn(arms, n) == from_i64_fn(arms, as_i64(n))

\* pub fn required_capabilities(self): the first arm naming self
RECURSIVE required_capabilities_fn(_, _)
required_capabilities_fn(arms, self) ==
    IF arms = <<>> THEN <<"no arm">>
    ELSE IF \E j \in 1..Len(Head(arms).variants) : Head(arms).variants[j] = self
         THEN Head(arms).capabilities
    ELSE required_capabilities_fn(Tail(arms), self)

\* pub const symbol: kind = kind::discriminator
alias_value(a) == [kind |-> a.kind, name |-> a.discriminator]

(***************************************************************************)
(* Inputs of the generator                                                 *)
(***************************************************************************)
KindNames == {Str_Dim, Str_Scope}
\* The symbol of the i-th enumerant of a kind; symbols are distinct.
Symbols(grammar_kind) ==
    IF grammar_kind = Str_Dim
    THEN << <<"1", "D">>, <<"2", "D">>, <<"3", "D">>, <<"C", "u", "b", "e">> >>
    ELSE << <<"D", "e", "v", "i", "c", "e">>, <<"Q", "u", "e", "u", "e">>,
            <<"W", "o", "r", "k">>, <<"S", "u", "b">> >>
Values == {0, 1, Word - 1}
CapLists == { <<>>, <<Str_Kernel, Str_Shader>>, <<Str_Shader, Str_Kernel>> }

EnumerantLists(grammar_kind) ==
    UNION { { [i \in 1..n |-> [symbol |-> Symbols(grammar_kind)[i],
                               value |-> vs[i], capabilities |-> cs[i]]] :
                vs \in [1..n -> Values], cs \in [1..n -> CapLists] } :
            n \in 0..(IF MaxEnumerants < Len(Symbols(grammar_kind))
                        THEN MaxEnumerants ELSE Len(Symbols(grammar_kind))) }

OperandKinds ==
    UNION { { [kind |-> k, category |-> "ValueEnum", enumerants |-> es] :
                es \in EnumerantLists(k) } : k \in KindNames }

(***************************************************************************)
(* The generator run on one closed-enumeration kind, and one call of a     *)
(* procedure it generated (the procedures are pure: a call changes         *)
(* nothing a later call reads, so each behaviour examines one call)        *)
(***************************************************************************)
KindInit ==
    /\ grammar \in OperandKinds
    /\ kindOut = None
    /\ result = None
    /\ annotations = Idle /\ initial = Idle /\ calls = Idle
    /\ instructions = Idle /\ opOut = Idle

KindFrame == UNCHANGED <<annotations, initial, calls, grammar, instructions, opOut>>

gen_value_enum ==
    /\ kindOut = None
    /\ kindOut' = Some(gen_value_enum_operand_kind(grammar))
    /\ UNCHANGED result
    /\ KindFrame

from_i64 ==
    \E n \in I64 :
        /\ kindOut # None
        /\ result = None
        /\ result' = Some([fn |-> "from_i64", n |-> n,
                           ret |-> from_i64_fn(kindOut[1].from_prim, n)])
        /\ UNCHANGED kindOut
        /\ KindFrame

from_u64 ==
    \E n \in U64 :
        /\ kindOut # None
        /\ result = None
        /\ result' = Some([fn |-> "from_u64", n |-> n,
                           ret |-> from_u64_fn(kindOut[1].from_prim, n)])
        /\ UNCHANGED kindOut
        /\ KindFrame

required_capabilities ==
    /\ kindOut # None
    /\ result = None
    /\ \E i \in 1..Len(kindOut[1].enumerants) :
          LET self == [kind |-> kindOut[1].kind, name |-> kindOut[1].enumerants[i].name]
          IN  result' = Some([fn |-> "required_capabilities", self |-> self,
                              ret |-> required_capabilities_fn(kindOut[1].capabilities,
                                                               self)])
    /\ UNCHANGED kindOut
    /\ KindFrame

\* The generator and the capability lookup it generates.
KindNext ==
    \/ gen_value_enum
    \/ required_capabilities

SpecKind == KindInit /\ [][KindNext]_vars

\* The generator and the decoders it generates.
DecodeNext ==
    \/ gen_value_enum
    \/ from_i64
    \/ from_u64

SpecDecode == KindInit /\ [][DecodeNext]_vars

(***************************************************************************)
(* gen_spirv_header: the Op enumeration and its decoder                    *)
(***************************************************************************)
Str_Op == <<"O", "p">>

\* &inst.opname[2..]
skip_prefix(opname) == SubSeq(opname, 3, Len(opname))

\* quote! { #opname = #opcode }
opcode_variant(inst) ==
    [name |-> as_ident(skip_prefix(inst.opname)), number |-> inst.opcode]

\* quote! { #opcode => Some(Op::#opname) }
opcode_arm(inst) ==
    [number |-> inst.opcode,
     value |-> Some([kind |-> as_ident(Str_Op),
                     name |-> as_ident(skip_prefix(inst.opname))])]

\* The Op items of the generated header: the enum and the arms of from_i64.
gen_spirv_header(insts) ==
    [opcodes |-> [i \in 1..Len(insts) |-> opcode_variant(insts[i])],
     from_prim |-> [i \in 1..Len(insts) |-> opcode_arm(insts[i])]]

\* The opname of the i-th instruction; opnames are distinct.
OpNames ==
    << <<"O", "p", "N", "o", "p">>, <<"O", "p", "U", "n", "d", "e", "f">>,
       <<"O", "p", "T", "y", "p", "e", "O", "p", "a", "q", "u", "e">>,
       <<"O", "p", "L", "i", "n", "e">> >>
Opcodes == {0, 1, 2, Word - 1}

\* Instruction lists with distinct opcodes (the precondition the generator
\* trusts: a repeated discriminant would not compile).
InstructionLists ==
    UNION { { [i \in 1..n |-> [opname |-> OpNames[i], opcode |-> cs[i]]] :
                cs \in { f \in [1..n -> Opcodes] :
                           \A i, j \in 1..n : i # j => f[i] # f[j] } } :
            n \in 0..(IF MaxInstructions < Len(OpNames)
                      THEN MaxInstructions ELSE Len(OpNames)) }

OpInit ==
    /\ instructions \in InstructionLists
    /\ opOut = None
    /\ result = None
    /\ annotations = Idle /\ initial = Idle /\ calls = Idle
    /\ grammar = Idle /\ kindOut = Idle

OpFrame == UNCHANGED <<annotations, initial, calls, grammar, kindOut, instructions>>

gen_op ==
    /\ opOut = None
    /\ opOut' = Some(gen_spirv_header(instructions))
    /\ UNCHANGED result
    /\ OpFrame

Op_from_i64 ==
    \E n \in I64 :
        /\ opOut # None
        /\ result = None
        /\ result' = Some([fn |-> "Op::from_i64", n |-> n,
                           ret |-> from_i64_fn(opOut[1].from_prim, n)])
        /\ UNCHANGED opOut
        /\ OpFrame

Op_from_u64 ==
    \E n \in U64 :
        /\ opOut # None
        /\ result = None
        /\ result' = Some([fn |-> "Op::from_u64", n |-> n,
                           ret |-> from_u64_fn(opOut[1].from_prim, n)])
        /\ UNCHANGED opOut
        /\ OpFrame

OpNext ==
    \/ gen_op
    \/ Op_from_i64
    \/ Op_from_u64

SpecOp == OpInit /\ [][OpNext]_vars

(***************************************************************************)
(* Properties of the annotation builder                                    *)
(***************************************************************************)
\* The record appended by the j-th call.
Appended(j) == annotations[Len(initial) + j]

\* The mandatory arguments of a call (every argument before an optional
\* trailing list), each as the operand of its type.
MandatoryArgs(c) ==
    CASE c.op = "decorate" -> <<IdRef(c.target), Decoration(c.decoration)>>
      [] c.op = "decorate_id" -> <<IdRef(c.target), Decoration(c.decoration)>>
      [] c.op = "member_decorate" ->
            <<IdRef(c.structure_type), LiteralInt32(c.member), Decoration(c.decoration)>>
      [] c.op = "member_decorate_string_google" ->
            <<IdRef(c.struct_type), LiteralInt32(c.member), Decoration(c.decoration)>>
      [] c.op = "group_decorate" -> <<IdRef(c.decoration_group)>>
      [] c.op = "group_member_decorate" -> <<IdRef(c.decoration_group)>>
      [] c.op = "subgroup_image_media_block_read_intel" ->
            <<IdRef(c.result_type), IdRef(c.image), IdRef(c.coordinate),
              IdRef(c.width), IdRef(c.height)>>

\* The number of operands the trailing list of a call contributes.
TrailingCount(c) ==
    CASE c.op \in {"decorate", "decorate_id", "member_decorate",
                   "member_decorate_string_google"} -> Len(c.additional_params)
      [] c.op = "group_decorate" -> Len(c.targets)
      [] c.op = "group_member_decorate" -> 2 * Len(c.targets)
      [] c.op = "subgroup_image_media_block_read_intel" -> 0

TakesOperandList(c) ==
    c.op \in {"decorate", "decorate_id", "member_decorate",
              "member_decorate_string_google"}

LeadingInOrder(c, ops) ==
    LET m == MandatoryArgs(c)
    IN  /\ Len(ops) - TrailingCount(c) = Len(m)
        /\ \A i \in 1..Len(m) : i <= Len(ops) /\ ops[i] = m[i]

\* C5: for every constructor, the mandatory leading arguments of the call are,
\* one-to-one and in order, the leading operands of the appended record.
C5_MandatoryArgsAreLeadingOperands ==
    \A j \in 1..Len(calls) : LeadingInOrder(calls[j], Appended(j).operands)

\* The record the model builds for a call.
InstOf(c) ==
    CASE c.op = "decorate" -> decorate_inst(c.target, c.decoration, c.additional_params)
      [] c.op = "decorate_id" ->
            decorate_id_inst(c.target, c.decoration, c.additional_params)
      [] c.op = "member_decorate" ->
            member_decorate_inst(c.structure_type, c.member, c.decoration,
                                 c.additional_params)
      [] c.op = "member_decorate_string_google" ->
            member_decorate_string_google_inst(c.struct_type, c.member, c.decoration,
                                               c.additional_params)
      [] c.op = "group_decorate" -> group_decorate_inst(c.decoration_group, c.targets)
      [] c.op = "group_member_decorate" ->
            group_member_decorate_inst(c.decoration_group, c.targets)
      [] c.op = "subgroup_image_media_block_read_intel" ->
            subgroup_image_media_block_read_intel_inst(c.result_type, c.image,
                                                       c.coordinate, c.width, c.height)

\* C6: after k calls the annotations list is the initial list followed by
\* exactly k records, the j-th of them the record of the j-th call, each
\* with no result type and no result id; the initial records are unchanged.
C6_CallOrderIsAppendOrder ==
    /\ Len(annotations) = Len(initial) + Len(calls)
    /\ \A i \in 1..Len(initial) : annotations[i] = initial[i]
    /\ \A j \in 1..Len(calls) :
          /\ Appended(j) = InstOf(calls[j])
          /\ Appended(j).result_type = None
          /\ Appended(j).result_id = None

C6_Witness ==
    /\ Len(initial) = 1
    /\ Len(calls) = 2
    /\ calls[1].op = "group_member_decorate"
    /\ calls[2].op = "decorate"
    /\ Len(annotations) = 3
    /\ annotations[2].class = "GroupMemberDecorate"
    /\ annotations[3].class = "Decorate"

\* C7: group_member_decorate with group g and pairs (id_1, idx_1) .. (id_n, idx_n)
\* appends operands [ref(g), ref(id_1), lit(idx_1), .., ref(id_n), lit(idx_n)].
C7_PairsFlattenedInOrder ==
    \A j \in 1..Len(calls) :
        calls[j].op = "group_member_decorate" =>
            LET t == calls[j].targets
                ops == Appended(j).operands
            IN  /\ Len(ops) = 1 + 2 * Len(t)
                /\ ops[1] = IdRef(calls[j].decoration_group)
                /\ \A i \in 1..Len(t) :
                      /\ ops[2 * i] = IdRef(t[i][1])
                      /\ ops[2 * i + 1] = LiteralInt32(t[i][2])
                /\ (calls[j].decoration_group = 9 /\ t = <<<<5, 2>>, <<7, 3>>>>
                        => ops = <<IdRef(9), IdRef(5), LiteralInt32(2),
                                   IdRef(7), LiteralInt32(3)>>)

C7_Witness ==
    \E j \in 1..Len(calls) :
        /\ calls[j].op = "group_member_decorate"
        /\ calls[j].decoration_group = 9
        /\ calls[j].targets = <<<<5, 2>>, <<7, 3>>>>
        /\ Len(Appended(j).operands) = 5

\* C8: for decorate, decorate_id, member_decorate and
\* member_decorate_string_google the operands of the appended record are the
\* mandatory operands followed by the additional operands of the caller,
\* verbatim and in the caller's order, with no result type and no result id.
C8_AdditionalParamsVerbatim ==
    \A j \in 1..Len(calls) :
        TakesOperandList(calls[j]) =>
            LET m == MandatoryArgs(calls[j])
                a == calls[j].additional_params
                ops == Appended(j).operands
            IN  /\ Len(ops) = Len(m) + Len(a)
                /\ \A i \in 1..Len(m) : ops[i] = m[i]
                /\ \A i \in 1..Len(a) : ops[Len(m) + i] = a[i]
                /\ Appended(j).result_type = None
                /\ Appended(j).result_id = None
                /\ ((calls[j].op = "decorate" /\ calls[j].target = 3
                        /\ calls[j].decoration = "K" /\ a = <<LiteralInt32(4)>>)
                        => ops = <<IdRef(3), Decoration("K"), LiteralInt32(4)>>)

C8_Witness ==
    \E j \in 1..Len(calls) :
        /\ calls[j].op = "member_decorate_string_google"
        /\ calls[j].additional_params = <<IdRef(5), LiteralInt32(4)>>
        /\ Len(Appended(j).operands) = 5
        /\ \E k \in 1..Len(calls) :
              /\ calls[k].op = "decorate"
              /\ calls[k].target = 3
              /\ calls[k].decoration = "K"
              /\ calls[k].additional_params = <<LiteralInt32(4)>>

(***************************************************************************)
(* Properties of gen_value_enum_operand_kind and of the code it generates  *)
(***************************************************************************)
Es == grammar.enumerants
Out == kindOut[1]

\* The i-th enumerant is the first declared with its value.
IsFirst(i) == \A j \in 1..(i - 1) : Es[j].value # Es[i].value
\* The first enumerant declared with the value of the i-th.
FirstOf(i) == CHOOSE j \in 1..i : Es[j].value = Es[i].value /\ IsFirst(j)
\* The position of the i-th enumerant among the first-declared, and among the rest.
CanonRank(i) == Cardinality({ j \in 1..i : IsFirst(j) })
AliasRank(i) == Cardinality({ j \in 1..i : ~IsFirst(j) })

\* The identifier of an enumerant: its symbol, preceded with "Dim" in the kind Dim.
PrefixedIdent(i) ==
    as_ident(IF grammar.kind = Str_Dim THEN Str_Dim \o Es[i].symbol ELSE Es[i].symbol)
\* The variant of a first-declared enumerant.
VariantOf(i) == [kind |-> as_ident(grammar.kind), name |-> PrefixedIdent(i)]
\* The declared capability list of an enumerant, as identifiers.
CapIdents(i) == [j \in 1..Len(Es[i].capabilities) |-> as_ident(Es[i].capabilities[j])]

\* C1: among the enumerants of one value, the first declared is the one
\* variant of that value and every later one is an alias constant bound to
\* that variant; variants = distinct values, variants + aliases = enumerants.
C1_FirstDeclaredIsCanonical ==
    kindOut # None =>
        /\ Len(Out.enumerants) = Cardinality({ Es[i].value : i \in 1..Len(Es) })
        /\ Len(Out.enumerants) + Len(Out.aliases) = Len(Es)
        /\ \A i \in 1..Len(Es) :
              /\ Cardinality({ k \in 1..Len(Out.enumerants) :
                                  Out.enumerants[k].number = Es[i].value }) = 1
              /\ IsFirst(i) =>
                    Out.enumerants[CanonRank(i)] =
                        [name |-> PrefixedIdent(i), number |-> Es[i].value]
              /\ ~IsFirst(i) =>
                    /\ Out.aliases[AliasRank(i)].symbol = as_ident(Es[i].symbol)
                    /\ alias_value(Out.aliases[AliasRank(i)]) = VariantOf(FirstOf(i))
                    /\ \A k \in 1..Len(Out.enumerants) :
                          Out.enumerants[k].name \notin
                              { as_ident(Es[i].symbol), PrefixedIdent(i) }

C1_Witness ==
    /\ kindOut # None
    /\ Len(Es) = 3
    /\ Es[1].value = Es[3].value
    /\ Es[2].value # Es[1].value
    /\ Len(Out.enumerants) = 2
    /\ Len(Out.aliases) = 1

\* C2: from_i64 and from_u64 return Some(the canonical variant of n) when n
\* is a declared discriminator and None when n is no declared discriminator.
C2_DecodeInvertsDeclaredValues ==
    (result # None /\ result[1].fn \in {"from_i64", "from_u64"}) =>
        LET n == result[1].n
        IN  IF \E i \in 1..Len(Es) : Es[i].value = n
            THEN \E i \in 1..Len(Es) :
                    /\ Es[i].value = n
                    /\ result[1].ret = Some(VariantOf(FirstOf(i)))
            ELSE result[1].ret = None

\* The match arms of required_capabilities that name the variant v.
ArmsOf(v) ==
    { a \in 1..Len(Out.capabilities) :
        \E j \in 1..Len(Out.capabilities[a].variants) :
            Out.capabilities[a].variants[j] = v }

RECURSIVE SumLen(_, _)
SumLen(arms, a) == IF a = 0 THEN 0 ELSE Len(arms[a].variants) + SumLen(arms, a - 1)

\* C3: every canonical enumerant is in exactly one match arm of
\* required_capabilities, two of them share an arm iff their ordered capability
\* lists are equal, and the list the arm returns is the declared list of the
\* enumerant, element for element and in order.
C3_CapabilityLookupExact ==
    /\ kindOut # None =>
          /\ SumLen(Out.capabilities, Len(Out.capabilities)) =
                Cardinality({ i \in 1..Len(Es) : IsFirst(i) })
          /\ \A i \in 1..Len(Es) : IsFirst(i) =>
                /\ Cardinality(ArmsOf(VariantOf(i))) = 1
                /\ \A a \in ArmsOf(VariantOf(i)) :
                      /\ Len(Out.capabilities[a].capabilities) = Len(Es[i].capabilities)
                      /\ \A j \in 1..Len(Es[i].capabilities) :
                            Out.capabilities[a].capabilities[j] =
                                as_ident(Es[i].capabilities[j])
                /\ \A k \in 1..Len(Es) : IsFirst(k) =>
                      ((ArmsOf(VariantOf(i)) = ArmsOf(VariantOf(k)))
                          <=> (Es[i].capabilities = Es[k].capabilities))
    /\ (result # None /\ result[1].fn = "required_capabilities") =>
          \E i \in 1..Len(Es) :
              /\ IsFirst(i)
              /\ result[1].self = VariantOf(i)
              /\ result[1].ret = CapIdents(i)

C3_Witness ==
    /\ result # None
    /\ result[1].fn = "required_capabilities"
    /\ Len(Es) = 3
    /\ \A i \in 1..3 : IsFirst(i)
    /\ Es[1].capabilities = <<Str_Shader, Str_Kernel>>
    /\ Es[2].capabilities = <<Str_Kernel, Str_Shader>>
    /\ Es[3].capabilities = <<Str_Shader, Str_Kernel>>
    /\ Len(Out.capabilities) = 2
    /\ result[1].self = VariantOf(3)
    /\ result[1].ret = <<as_ident(Str_Shader), as_ident(Str_Kernel)>>

\* C9: in the kind Dim every emitted identifier of an enumerant, the variant
\* of a first-declared one and the alias constant of a later one alike, is
\* the symbol preceded with "Dim"; in every other kind it is the symbol.
C9_DimIdentifiersPrefixed ==
    kindOut # None =>
        \A i \in 1..Len(Es) :
            /\ IsFirst(i) => Out.enumerants[CanonRank(i)].name = PrefixedIdent(i)
            /\ ~IsFirst(i) => Out.aliases[AliasRank(i)].symbol = PrefixedIdent(i)

\* The grammar with the capability list of the i-th enumerant replaced.
WithCapabilities(g, i, c) ==
    [g EXCEPT !.enumerants[i].capabilities = c]

\* C10: the capability list of an alias enumerant never influences the
\* output: replacing it leaves the arms of required_capabilities as they
\* are, and the alias resolves to the list of the first-declared enumerant.
C10_AliasCapabilitiesIgnored ==
    kindOut # None =>
        \A i \in 1..Len(Es) : ~IsFirst(i) =>
            /\ \A c \in CapLists :
                  gen_value_enum_operand_kind(WithCapabilities(grammar, i, c)).capabilities
                      = Out.capabilities
            /\ required_capabilities_fn(Out.capabilities,
                                        alias_value(Out.aliases[AliasRank(i)]))
                  = CapIdents(FirstOf(i))

C10_Witness ==
    /\ kindOut # None
    /\ \E i \in 1..Len(Es) :
          /\ ~IsFirst(i)
          /\ Es[i].capabilities = <<Str_Kernel, Str_Shader>>
          /\ Es[FirstOf(i)].capabilities = <<Str_Shader, Str_Kernel>>
          /\ Len(Out.aliases) >= 1

(***************************************************************************)
(* Properties of the Op decoder                                            *)
(***************************************************************************)
\* The member of Op named by an opname with its first two characters removed.
OpMember(opname) ==
    [kind |-> as_ident(Str_Op),
     name |-> as_ident([k \in 1..(Len(opname) - 2) |-> opname[k + 2]])]

\* C4: with opcodes unique, the Op decode procedure applied to the opcode of
\* an instruction returns Some(the member named by its opname without the
\* first two characters), and applied to any value that is no instruction's
\* opcode returns None.
C4_OpDecode ==
    (result # None /\ result[1].fn \in {"Op::from_i64", "Op::from_u64"}) =>
        LET n == result[1].n
        IN  IF \E i \in 1..Len(instructions) : instructions[i].opcode = n
            THEN \E i \in 1..Len(instructions) :
                    /\ instructions[i].opcode = n
                    /\ result[1].ret = Some(OpMember(instructions[i].opname))
            ELSE result[1].ret = None

====
